---- MODULE Spec2Model ----
(***************************************************************************)
(* A model of the workout generator API (server revision 5, with the      *)
(* revision-4 server.js where the two share code).  The state is the      *)
(* server's in-memory storage, every action is one request handler run    *)
(* to completion (Node runs a synchronous handler atomically), and the    *)
(* response of the last request is kept in req/res so that properties can *)
(* speak about what a handler answered.                                    *)
(***************************************************************************)
EXTENDS Integers, Sequences, FiniteSets, TLC

VARIABLES
    exercises,          \* data.exercises: the built-in catalog, loaded at startup
    warmups,            \* data.warmups
    stretches,          \* data.stretches
    customExercises,    \* let customExercises = []
    nextCustomId,       \* let nextCustomId = 1000
    favorites,          \* let favorites = new Set()
    workoutHistory,     \* let workoutHistory = []
    popularExercises,   \* apiStats.popularExercises: id -> number of views
    now,                \* the wall clock read by new Date(), in ticks
    req,                \* the request handled last
    res                 \* the response it got

vars == <<exercises, warmups, stretches, customExercises, nextCustomId, favorites,
          workoutHistory, popularExercises, now, req, res>>

store == <<customExercises, nextCustomId, favorites, workoutHistory, popularExercises, now>>

data == <<exercises, warmups, stretches>>

-----------------------------------------------------------------------------
(* Bounds of the model.                                                    *)

\* successful add-exercise requests in one run
MaxCustom == 2
\* history appends in one run of the history specification
MaxAppends == 150
\* history appends in one run of the store specification
MaxStoreAppends == 1
\* successful id lookups in one run
MaxViews == 1
\* positions at which a shuffle of the interval exercises draws an index
\* other than the position itself
MaxMoved == 1

-----------------------------------------------------------------------------
(* JavaScript values.                                                      *)

\* a query/body field that was not sent
undefined == "undefined"

\* A raw numeric parameter, as it arrives: absent, text that is no number,
\* or the decimal text of an integer.
RawAbsent == [kind |-> "absent", n |-> 0]
RawText == [kind |-> "text", n |-> 0]
RawInt(n) == [kind |-> "int", n |-> n]

\* const { count = 3 } = req.query: the default replaces an absent field only
WithDefault(raw, d) == IF raw.kind = "absent" THEN RawInt(d) ELSE raw

NaN == [nan |-> TRUE, n |-> 0]
Num(n) == [nan |-> FALSE, n |-> n]

\* parseInt(x): the integer for decimal text, NaN otherwise
parseInt(raw) == IF raw.kind = "int" THEN Num(raw.n) ELSE NaN

\* x || d on a number: NaN and 0 are falsy
OrElse(v, d) == IF v.nan \/ v.n = 0 THEN d ELSE v.n

\* x < y on numbers: every comparison with NaN is false
LessThan(v, k) == ~v.nan /\ v.n < k

MathMax(a, b) == IF a >= b THEN a ELSE b
MathMin(a, b) == IF a <= b THEN a ELSE b

\* String.prototype.toLowerCase, on the strings the model sends
toLowerCase(s) ==
    CASE s = "Chest" -> "chest"
      [] s = "LEGS" -> "legs"
      [] s = "Beginner" -> "beginner"
      [] s = "ADVANCED" -> "advanced"
      [] s = "Upper" -> "upper"
      [] s = "Push-Pull" -> "push-pull"
      [] s = "Legs" -> "legs"
      [] OTHER -> s

\* a string in a condition: undefined (and "") is falsy
Truthy(s) == s # undefined /\ s # ""

Range(s) == {s[i] : i \in 1..Len(s)}

\* Array.prototype.filter (part_001:238-240): the elements that pass, in their order
Filter(s, Keep(_)) == SelectSeq(s, Keep)

\* Array.prototype.slice(0, k)
Slice(s, k) == SubSeq(s, 1, MathMin(MathMax(k, 0), Len(s)))

validMuscles == {"chest", "back", "legs", "shoulders", "arms", "core"}
validDifficulties == {"beginner", "intermediate", "advanced"}

-----------------------------------------------------------------------------
(* The catalog.                                                            *)

FirstCustomId == 1000
HistoryCap == 100

Exercise(id, muscle, difficulty) ==
    [id |-> id, name |-> "builtin", muscle |-> muscle, difficulty |-> difficulty,
     custom |-> FALSE]

\* function getAllExercises()
getAllExercises == exercises \o customExercises

Ids(list) == {list[i].id : i \in 1..Len(list)}

\* getAllExercises().find(ex => ex.id === id): the first match, if any
HasId(list, id) == \E i \in 1..Len(list) : list[i].id = id
FindById(list, id) == list[CHOOSE i \in 1..Len(list) :
                             list[i].id = id /\ \A k \in 1..(i - 1) : list[k].id # id]

-----------------------------------------------------------------------------
(* The mutation store: custom exercises, favorites, history.               *)

\* POST /exercises with id: nextCustomId in place of id: nextCustomId++
PostExercisesNoIncrement(body) ==
    /\ nextCustomId < FirstCustomId + MaxCustom
    /\ req' = [op |-> "POST /exercises", body |-> body]
    /\ IF ~Truthy(body.name) \/ ~Truthy(body.muscle) \/ ~Truthy(body.difficulty)
       THEN /\ res' = [status |-> 400, error |-> "Missing required fields"]
            /\ UNCHANGED <<data, store>>
       ELSE IF toLowerCase(body.muscle) \notin validMuscles
       THEN /\ res' = [status |-> 400, error |-> "Invalid muscle parameter"]
            /\ UNCHANGED <<data, store>>
       ELSE IF toLowerCase(body.difficulty) \notin validDifficulties
       THEN /\ res' = [status |-> 400, error |-> "Invalid difficulty parameter"]
            /\ UNCHANGED <<data, store>>
       ELSE LET newExercise == [id |-> nextCustomId,
                                name |-> body.name,
                                muscle |-> toLowerCase(body.muscle),
                                difficulty |-> toLowerCase(body.difficulty),
                                custom |-> TRUE]
            IN  /\ nextCustomId' = nextCustomId
                /\ customExercises' = Append(customExercises, newExercise)
                /\ res' = [status |-> 201, exercise |-> newExercise]
                /\ UNCHANGED <<data, favorites, workoutHistory, popularExercises, now>>

\* POST /exercises with customExercises.unshift(newExercise): the new
\* exercise is stored first
PostExercisesUnshifting(body) ==
    /\ nextCustomId < FirstCustomId + MaxCustom
    /\ req' = [op |-> "POST /exercises", body |-> body]
    /\ IF ~Truthy(body.name) \/ ~Truthy(body.muscle) \/ ~Truthy(body.difficulty)
       THEN /\ res' = [status |-> 400, error |-> "Missing required fields"]
            /\ UNCHANGED <<data, store>>
       ELSE IF toLowerCase(body.muscle) \notin validMuscles
       THEN /\ res' = [status |-> 400, error |-> "Invalid muscle parameter"]
            /\ UNCHANGED <<data, store>>
       ELSE IF toLowerCase(body.difficulty) \notin validDifficulties
       THEN /\ res' = [status |-> 400, error |-> "Invalid difficulty parameter"]
            /\ UNCHANGED <<data, store>>
       ELSE LET newExercise == [id |-> nextCustomId,
                                name |-> body.name,
                                muscle |-> toLowerCase(body.muscle),
                                difficulty |-> toLowerCase(body.difficulty),
                                custom |-> TRUE]
            IN  /\ nextCustomId' = nextCustomId + 1
                /\ customExercises' = <<newExercise>> \o customExercises
                /\ res' = [status |-> 201, exercise |-> newExercise]
                /\ UNCHANGED <<data, favorites, workoutHistory, popularExercises, now>>

\* POST /exercises taking the id, const id = nextCustomId++, before the body
\* is validated: a rejected request uses an id up
PostExercisesCountingRejected(body) ==
    /\ nextCustomId < FirstCustomId + MaxCustom
    /\ req' = [op |-> "POST /exercises", body |-> body]
    /\ nextCustomId' = nextCustomId + 1
    /\ IF ~Truthy(body.name) \/ ~Truthy(body.muscle) \/ ~Truthy(body.difficulty)
       THEN /\ res' = [status |-> 400, error |-> "Missing required fields"]
            /\ UNCHANGED <<data, customExercises, favorites, workoutHistory,
                           popularExercises, now>>
       ELSE IF toLowerCase(body.muscle) \notin validMuscles
       THEN /\ res' = [status |-> 400, error |-> "Invalid muscle parameter"]
            /\ UNCHANGED <<data, customExercises, favorites, workoutHistory,
                           popularExercises, now>>
       ELSE IF toLowerCase(body.difficulty) \notin validDifficulties
       THEN /\ res' = [status |-> 400, error |-> "Invalid difficulty parameter"]
            /\ UNCHANGED <<data, customExercises, favorites, workoutHistory,
                           popularExercises, now>>
       ELSE LET newExercise == [id |-> nextCustomId,
                                name |-> body.name,
                                muscle |-> toLowerCase(body.muscle),
                                difficulty |-> toLowerCase(body.difficulty),
                                custom |-> TRUE]
            IN  /\ customExercises' = Append(customExercises, newExercise)
                /\ res' = [status |-> 201, exercise |-> newExercise]
                /\ UNCHANGED <<data, favorites, workoutHistory, popularExercises, now>>

\* app.post('/exercises', ...)
PostExercises(body) ==
    /\ nextCustomId < FirstCustomId + MaxCustom
    /\ req' = [op |-> "POST /exercises", body |-> body]
    /\ IF ~Truthy(body.name) \/ ~Truthy(body.muscle) \/ ~Truthy(body.difficulty)
       THEN /\ res' = [status |-> 400, error |-> "Missing required fields"]
            /\ UNCHANGED <<data, store>>
       ELSE IF toLowerCase(body.muscle) \notin validMuscles
       THEN /\ res' = [status |-> 400, error |-> "Invalid muscle parameter"]
            /\ UNCHANGED <<data, store>>
       ELSE IF toLowerCase(body.difficulty) \notin validDifficulties
       THEN /\ res' = [status |-> 400, error |-> "Invalid difficulty parameter"]
            /\ UNCHANGED <<data, store>>
       ELSE LET newExercise == [id |-> nextCustomId,
                                name |-> body.name,
                                muscle |-> toLowerCase(body.muscle),
                                difficulty |-> toLowerCase(body.difficulty),
                                custom |-> TRUE]
            IN  /\ nextCustomId' = nextCustomId + 1
                /\ customExercises' = Append(customExercises, newExercise)
                /\ res' = [status |-> 201, exercise |-> newExercise]
                /\ UNCHANGED <<data, favorites, workoutHistory, popularExercises, now>>

\* customExercises.findIndex(ex => ex.id === id): 0 stands for -1
FindIndex(list, id) ==
    IF HasId(list, id)
    THEN CHOOSE i \in 1..Len(list) : list[i].id = id /\ \A k \in 1..(i - 1) : list[k].id # id
    ELSE 0

\* customExercises.splice(index, 1): the list without the element at index
Splice(list, index) == SubSeq(list, 1, index - 1) \o SubSeq(list, index + 1, Len(list))

\* DELETE /exercises/:id without the built-in guard: an id below 1000 is
\* looked up in the custom list like any other
DeleteExerciseUnguarded(rawId) ==
    LET id == parseInt(rawId)
        index == IF id.nan THEN 0 ELSE FindIndex(customExercises, id.n)
    IN  /\ req' = [op |-> "DELETE /exercises/:id", id |-> rawId]
        /\ IF index = 0
           THEN /\ res' = [status |-> 404, error |-> "Custom exercise not found"]
                /\ UNCHANGED <<data, store>>
           ELSE /\ customExercises' = Splice(customExercises, index)
                /\ res' = [status |-> 200, exercise |-> customExercises[index]]
                /\ UNCHANGED <<data, nextCustomId, favorites, workoutHistory,
                               popularExercises, now>>

\* DELETE /exercises/:id removing the last custom exercise, whatever its id
DeleteExercisePopping(rawId) ==
    LET id == parseInt(rawId)
        index == IF id.nan THEN 0 ELSE FindIndex(customExercises, id.n)
    IN  /\ req' = [op |-> "DELETE /exercises/:id", id |-> rawId]
        /\ IF LessThan(id, FirstCustomId)
           THEN /\ res' = [status |-> 403, error |-> "Cannot delete built-in exercises"]
                /\ UNCHANGED <<data, store>>
           ELSE IF index = 0
           THEN /\ res' = [status |-> 404, error |-> "Custom exercise not found"]
                /\ UNCHANGED <<data, store>>
           ELSE /\ customExercises' = Splice(customExercises, 1)
                /\ res' = [status |-> 200, exercise |-> customExercises[1]]
                /\ UNCHANGED <<data, nextCustomId, favorites, workoutHistory,
                               popularExercises, now>>

\* DELETE /exercises/:id with customExercises.splice(index): the exercise is
\* removed with every custom exercise stored after it
DeleteExerciseSplicingTail(rawId) ==
    LET id == parseInt(rawId)
        index == IF id.nan THEN 0 ELSE FindIndex(customExercises, id.n)
    IN  /\ req' = [op |-> "DELETE /exercises/:id", id |-> rawId]
        /\ IF LessThan(id, FirstCustomId)
           THEN /\ res' = [status |-> 403, error |-> "Cannot delete built-in exercises"]
                /\ UNCHANGED <<data, store>>
           ELSE IF index = 0
           THEN /\ res' = [status |-> 404, error |-> "Custom exercise not found"]
                /\ UNCHANGED <<data, store>>
           ELSE /\ customExercises' = SubSeq(customExercises, 1, index - 1)
                /\ res' = [status |-> 200, exercise |-> customExercises[index]]
                /\ UNCHANGED <<data, nextCustomId, favorites, workoutHistory,
                               popularExercises, now>>

\* app.delete('/exercises/:id', ...)
DeleteExercise(rawId) ==
    LET id == parseInt(rawId)
        index == IF id.nan THEN 0 ELSE FindIndex(customExercises, id.n)
    IN  /\ req' = [op |-> "DELETE /exercises/:id", id |-> rawId]
        /\ IF LessThan(id, FirstCustomId)
           THEN /\ res' = [status |-> 403, error |-> "Cannot delete built-in exercises"]
                /\ UNCHANGED <<data, store>>
           ELSE IF index = 0
           THEN /\ res' = [status |-> 404, error |-> "Custom exercise not found"]
                /\ UNCHANGED <<data, store>>
           ELSE /\ customExercises' = Splice(customExercises, index)
                /\ res' = [status |-> 200, exercise |-> customExercises[index]]
                /\ UNCHANGED <<data, nextCustomId, favorites, workoutHistory,
                               popularExercises, now>>

\* apiStats.popularExercises[id] || 0
Views(id) == IF id \in DOMAIN popularExercises THEN popularExercises[id] ELSE 0

TotalViews == LET RECURSIVE Sum(_)
                  Sum(S) == IF S = {} THEN 0
                            ELSE LET x == CHOOSE x \in S : TRUE
                                 IN  popularExercises[x] + Sum(S \ {x})
              IN  Sum(DOMAIN popularExercises)

\* app.get('/exercise/:id', ...)
GetExerciseById(rawId) ==
    LET id == parseInt(rawId)
        found == ~id.nan /\ HasId(getAllExercises, id.n)
    IN  /\ req' = [op |-> "GET /exercise/:id", id |-> rawId]
        /\ IF ~found
           THEN /\ res' = [status |-> 404, error |-> "Exercise not found"]
                /\ UNCHANGED <<data, store>>
           ELSE /\ TotalViews < MaxViews
                /\ popularExercises' =
                       [k \in DOMAIN popularExercises \cup {id.n} |->
                           IF k = id.n THEN Views(k) + 1 ELSE popularExercises[k]]
                /\ res' = [status |-> 200, exercise |-> FindById(getAllExercises, id.n),
                           isFavorite |-> id.n \in favorites]
                /\ UNCHANGED <<data, customExercises, nextCustomId, favorites,
                               workoutHistory, now>>

\* POST /favorites/:id without the favorites.has(id) test
PostFavoriteNoDuplicateTest(rawId) ==
    LET id == parseInt(rawId)
        found == ~id.nan /\ HasId(getAllExercises, id.n)
    IN  /\ req' = [op |-> "POST /favorites/:id", id |-> rawId]
        /\ IF ~found
           THEN /\ res' = [status |-> 404, error |-> "Exercise not found"]
                /\ UNCHANGED <<data, store>>
           ELSE /\ favorites' = favorites \cup {id.n}
                /\ res' = [status |-> 201, exercise |-> FindById(getAllExercises, id.n)]
                /\ UNCHANGED <<data, customExercises, nextCustomId, workoutHistory,
                               popularExercises, now>>

\* POST /favorites/:id without the lookup of the exercise: any numeric id
\* that is not a favorite yet is added
PostFavoriteNoExistenceTest(rawId) ==
    LET id == parseInt(rawId)
    IN  /\ req' = [op |-> "POST /favorites/:id", id |-> rawId]
        /\ IF id.nan
           THEN /\ res' = [status |-> 404, error |-> "Exercise not found"]
                /\ UNCHANGED <<data, store>>
           ELSE IF id.n \in favorites
           THEN /\ res' = [status |-> 400, error |-> "Exercise already in favorites"]
                /\ UNCHANGED <<data, store>>
           ELSE /\ favorites' = favorites \cup {id.n}
                /\ res' = [status |-> 201, exerciseId |-> id.n]
                /\ UNCHANGED <<data, customExercises, nextCustomId, workoutHistory,
                               popularExercises, now>>

\* app.post('/favorites/:id', ...)
PostFavorite(rawId) ==
    LET id == parseInt(rawId)
        found == ~id.nan /\ HasId(getAllExercises, id.n)
    IN  /\ req' = [op |-> "POST /favorites/:id", id |-> rawId]
        /\ IF ~found
           THEN /\ res' = [status |-> 404, error |-> "Exercise not found"]
                /\ UNCHANGED <<data, store>>
           ELSE IF id.n \in favorites
           THEN /\ res' = [status |-> 400, error |-> "Exercise already in favorites"]
                /\ UNCHANGED <<data, store>>
           ELSE /\ favorites' = favorites \cup {id.n}
                /\ res' = [status |-> 201, exercise |-> FindById(getAllExercises, id.n)]
                /\ UNCHANGED <<data, customExercises, nextCustomId, workoutHistory,
                               popularExercises, now>>

\* app.delete('/favorites/:id', ...)
DeleteFavorite(rawId) ==
    LET id == parseInt(rawId)
    IN  /\ req' = [op |-> "DELETE /favorites/:id", id |-> rawId]
        /\ IF id.nan \/ id.n \notin favorites
           THEN /\ res' = [status |-> 404, error |-> "Exercise not in favorites"]
                /\ UNCHANGED <<data, store>>
           ELSE /\ favorites' = favorites \ {id.n}
                /\ res' = [status |-> 200, exerciseId |-> id.n]
                /\ UNCHANGED <<data, customExercises, nextCustomId, workoutHistory,
                               popularExercises, now>>

\* app.get('/favorites', ...): the exercises of the combined catalog whose id
\* is a favorite, and how many they are
GetFavorites ==
    LET allExercises == getAllExercises
        favoriteExercises == Filter(allExercises, LAMBDA ex : ex.id \in favorites)
    IN  /\ req' = [op |-> "GET /favorites"]
        /\ res' = [status |-> 200, favorites |-> favoriteExercises,
                   count |-> Len(favoriteExercises)]
        /\ UNCHANGED <<data, store>>

\* Object.entries(apiStats.popularExercises).sort((a, b) => b[1] - a[1]):
\* integer keys come in ascending order and the sort is stable, so the
\* entries are listed by falling views and, among equal views, rising id
RECURSIVE SortedByViews(_)
SortedByViews(ids) ==
    IF ids = {} THEN <<>>
    ELSE LET top == CHOOSE a \in ids :
                        \A b \in ids : \/ popularExercises[a] > popularExercises[b]
                                       \/ /\ popularExercises[a] = popularExercises[b]
                                          /\ a <= b
         IN  <<top>> \o SortedByViews(ids \ {top})

\* app.get('/stats', ...): the fields computed from the storage (the request
\* counters and the uptime belong to the logging middleware)
GetStats ==
    LET topExercises ==
            LET top == Slice(SortedByViews(DOMAIN popularExercises), 5)
            IN  [k \in 1..Len(top) |->
                    [name |-> IF HasId(getAllExercises, top[k])
                              THEN FindById(getAllExercises, top[k]).name
                              ELSE "Unknown",
                     views |-> popularExercises[top[k]]]]
    IN  /\ req' = [op |-> "GET /stats"]
        /\ res' = [status |-> 200,
                   topExercises |-> topExercises,
                   totalExercises |-> Len(getAllExercises),
                   customExercises |-> Len(customExercises),
                   totalFavorites |-> Cardinality(favorites)]
        /\ UNCHANGED <<data, store>>

\* exercises.reduce((sum, ex) => sum + (ex.calories || 0), 0)
RECURSIVE SumCalories(_)
SumCalories(list) ==
    IF list = <<>> THEN 0 ELSE Head(list).calories + SumCalories(Tail(list))

\* POST /history evicting whenever the log is full before the push, by
\* dropping the newest stored entry instead of the oldest
PostHistoryEvictingNewest(body) ==
    /\ now < MaxAppends
    /\ req' = [op |-> "POST /history", body |-> body]
    /\ IF ~body.isArray
       THEN /\ res' = [status |-> 400, error |-> "Missing required field: exercises (array)"]
            /\ UNCHANGED <<data, store>>
       ELSE LET historyEntry == [id |-> Len(workoutHistory) + 1,
                                 timestamp |-> now + 1,
                                 exerciseCount |-> Len(body.exercises),
                                 estimatedCalories |-> SumCalories(body.exercises)]
                pushed == Append(workoutHistory, historyEntry)
            IN  /\ now' = now + 1
                /\ workoutHistory' =
                       IF Len(pushed) > HistoryCap
                       THEN Append(SubSeq(workoutHistory, 1, Len(workoutHistory) - 1),
                                   historyEntry)
                       ELSE pushed
                /\ res' = [status |-> 201, workout |-> historyEntry]
                /\ UNCHANGED <<data, customExercises, nextCustomId, favorites,
                               popularExercises>>

\* app.post('/history', ...)
PostHistory(body) ==
    /\ now < MaxAppends
    /\ req' = [op |-> "POST /history", body |-> body]
    /\ IF ~body.isArray
       THEN /\ res' = [status |-> 400, error |-> "Missing required field: exercises (array)"]
            /\ UNCHANGED <<data, store>>
       ELSE LET historyEntry == [id |-> Len(workoutHistory) + 1,
                                 timestamp |-> now + 1,
                                 exerciseCount |-> Len(body.exercises),
                                 estimatedCalories |-> SumCalories(body.exercises)]
                pushed == Append(workoutHistory, historyEntry)
            IN  /\ now' = now + 1
                /\ workoutHistory' =
                       IF Len(pushed) > HistoryCap THEN Tail(pushed) ELSE pushed
                /\ res' = [status |-> 201, workout |-> historyEntry]
                /\ UNCHANGED <<data, customExercises, nextCustomId, favorites,
                               popularExercises>>

\* DELETE /history reading workoutHistory.length after the reset
DeleteHistoryCountingAfter ==
    /\ req' = [op |-> "DELETE /history"]
    /\ workoutHistory' = <<>>
    /\ res' = [status |-> 200, deletedCount |-> Len(workoutHistory')]
    /\ UNCHANGED <<data, customExercises, nextCustomId, favorites, popularExercises, now>>

\* app.delete('/history', ...)
DeleteHistory ==
    /\ req' = [op |-> "DELETE /history"]
    /\ workoutHistory' = <<>>
    /\ res' = [status |-> 200, deletedCount |-> Len(workoutHistory)]
    /\ UNCHANGED <<data, customExercises, nextCustomId, favorites, popularExercises, now>>

-----------------------------------------------------------------------------
(* The sampler.                                                            *)

\* the choices when j is drawn as Math.floor(Math.random() * shuffled.length),
\* any index at every position
RandomChoicesOfAnyIndex(n) == [2..n -> 1..n]

\* The values Math.floor(Math.random() * (i + 1)) can take in one shuffle of
\* n elements: one index j <= i for every position i from the last down to
\* the second (positions count from 1 here, from 0 in the source).
RandomChoices(n) == {js \in [2..n -> 1..n] : \A i \in 2..n : js[i] <= i}

\* [shuffled[i], shuffled[j]] = [shuffled[j], shuffled[i]]
Swap(s, i, j) == [s EXCEPT ![i] = s[j], ![j] = s[i]]

\* the loop of shuffleArray, from position i down
RECURSIVE FisherYates(_, _, _)
FisherYates(shuffled, i, js) ==
    IF i <= 1 THEN shuffled
    ELSE FisherYates(Swap(shuffled, i, js[i]), i - 1, js)

\* shuffleArray without the copy: the caller's array is shuffled in place
shuffleArrayInPlace(array, js) ==
    LET shuffled == FisherYates(array, Len(array), js)
    IN  [array |-> shuffled, shuffled |-> shuffled]

\* function shuffleArray(array): the caller's array as the call leaves it,
\* and the shuffled copy it returns
shuffleArray(array, js) ==
    [array |-> array, shuffled |-> FisherYates(array, Len(array), js)]

-----------------------------------------------------------------------------
(* The workout composer.                                                   *)

\* Math.min(10, Math.max(1, parseInt(count) || 3)) with count = 3 by default
ExerciseCount(count) ==
    MathMin(10, MathMax(1, OrElse(parseInt(WithDefault(count, 3)), 3)))

\* the two filters of GET /generate-workout over data.exercises
FilteredExercises(list, muscle, difficulty) ==
    LET byMuscle ==
            IF Truthy(muscle)
            THEN Filter(list, LAMBDA ex : toLowerCase(ex.muscle) = toLowerCase(muscle))
            ELSE list
    IN  IF Truthy(difficulty)
        THEN Filter(byMuscle,
                    LAMBDA ex : toLowerCase(ex.difficulty) = toLowerCase(difficulty))
        ELSE byMuscle

\* how many filter and shuffle calls a handler made: kept with the response
Work(filters, shuffles) == [filters |-> filters, shuffles |-> shuffles]

Count(b) == IF b THEN 1 ELSE 0

\* GET /generate-workout taking the requested number of elements without
\* the Math.min(exerciseCount, shuffled.length) bound and by index, wrapping
\* around when the list is shorter
GenerateWorkoutWrapping(q) ==
    /\ req' = [op |-> "GET /generate-workout", query |-> q]
    /\ IF Truthy(q.muscle) /\ toLowerCase(q.muscle) \notin validMuscles
       THEN /\ res' = [status |-> 400, error |-> "Invalid muscle parameter",
                       work |-> Work(0, 0)]
            /\ UNCHANGED <<data, store>>
       ELSE IF Truthy(q.difficulty) /\ toLowerCase(q.difficulty) \notin validDifficulties
       THEN /\ res' = [status |-> 400, error |-> "Invalid difficulty parameter",
                       work |-> Work(0, 0)]
            /\ UNCHANGED <<data, store>>
       ELSE LET exerciseCount == ExerciseCount(q.count)
                filteredExercises == FilteredExercises(exercises, q.muscle, q.difficulty)
                filters == Count(Truthy(q.muscle)) + Count(Truthy(q.difficulty))
            IN  IF Len(filteredExercises) = 0
                THEN /\ res' = [status |-> 404,
                                error |-> "No exercises found matching your criteria",
                                work |-> Work(filters, 0)]
                     /\ UNCHANGED <<data, store>>
                ELSE \E js \in RandomChoices(Len(filteredExercises)) :
                        LET r == shuffleArray(filteredExercises, js)
                            workout == [i \in 1..exerciseCount |->
                                           r.shuffled[((i - 1) % Len(r.shuffled)) + 1]]
                        IN  /\ res' = [status |-> 200, workout |-> workout,
                                       count |-> Len(workout),
                                       exerciseCount |-> exerciseCount,
                                       work |-> Work(filters, 1)]
                            /\ exercises' = IF filters = 0 THEN r.array ELSE exercises
                            /\ UNCHANGED <<warmups, stretches, store>>

\* GET /generate-workout without the filteredExercises.length === 0 test: an
\* empty filtered list is shuffled and sliced like any other
GenerateWorkoutAnsweringEmpty(q) ==
    /\ req' = [op |-> "GET /generate-workout", query |-> q]
    /\ IF Truthy(q.muscle) /\ toLowerCase(q.muscle) \notin validMuscles
       THEN /\ res' = [status |-> 400, error |-> "Invalid muscle parameter",
                       work |-> Work(0, 0)]
            /\ UNCHANGED <<data, store>>
       ELSE IF Truthy(q.difficulty) /\ toLowerCase(q.difficulty) \notin validDifficulties
       THEN /\ res' = [status |-> 400, error |-> "Invalid difficulty parameter",
                       work |-> Work(0, 0)]
            /\ UNCHANGED <<data, store>>
       ELSE LET exerciseCount == ExerciseCount(q.count)
                filteredExercises == FilteredExercises(exercises, q.muscle, q.difficulty)
                filters == Count(Truthy(q.muscle)) + Count(Truthy(q.difficulty))
            IN  \E js \in RandomChoices(Len(filteredExercises)) :
                    LET r == shuffleArray(filteredExercises, js)
                        workout == Slice(r.shuffled,
                                         MathMin(exerciseCount, Len(r.shuffled)))
                    IN  /\ res' = [status |-> 200, workout |-> workout,
                                   count |-> Len(workout),
                                   exerciseCount |-> exerciseCount,
                                   work |-> Work(filters, 1)]
                        /\ exercises' = IF filters = 0 THEN r.array ELSE exercises
                        /\ UNCHANGED <<warmups, stretches, store>>

\* app.get('/generate-workout', ...).  With no filter filteredExercises is
\* data.exercises itself, the array shuffleArray is handed.
GenerateWorkout(q) ==
    /\ req' = [op |-> "GET /generate-workout", query |-> q]
    /\ IF Truthy(q.muscle) /\ toLowerCase(q.muscle) \notin validMuscles
       THEN /\ res' = [status |-> 400, error |-> "Invalid muscle parameter",
                       work |-> Work(0, 0)]
            /\ UNCHANGED <<data, store>>
       ELSE IF Truthy(q.difficulty) /\ toLowerCase(q.difficulty) \notin validDifficulties
       THEN /\ res' = [status |-> 400, error |-> "Invalid difficulty parameter",
                       work |-> Work(0, 0)]
            /\ UNCHANGED <<data, store>>
       ELSE LET exerciseCount == ExerciseCount(q.count)
                filteredExercises == FilteredExercises(exercises, q.muscle, q.difficulty)
                filters == Count(Truthy(q.muscle)) + Count(Truthy(q.difficulty))
            IN  IF Len(filteredExercises) = 0
                THEN /\ res' = [status |-> 404,
                                error |-> "No exercises found matching your criteria",
                                work |-> Work(filters, 0)]
                     /\ UNCHANGED <<data, store>>
                ELSE \E js \in RandomChoices(Len(filteredExercises)) :
                        LET r == shuffleArray(filteredExercises, js)
                            workout == Slice(r.shuffled,
                                             MathMin(exerciseCount, Len(r.shuffled)))
                        IN  /\ res' = [status |-> 200, workout |-> workout,
                                       count |-> Len(workout),
                                       exerciseCount |-> exerciseCount,
                                       work |-> Work(filters, 1)]
                            /\ exercises' = IF filters = 0 THEN r.array ELSE exercises
                            /\ UNCHANGED <<warmups, stretches, store>>

\* const workoutSplits = { beginner: [...], intermediate: [...], advanced: [...] }
Day(name, muscles) == [name |-> name, muscles |-> muscles]

workoutSplits(difficulty) ==
    CASE difficulty = "beginner" ->
           <<Day("Full Body A", <<"chest", "back", "legs">>),
             Day("Rest", <<>>),
             Day("Full Body B", <<"shoulders", "arms", "core">>),
             Day("Rest", <<>>),
             Day("Full Body A", <<"chest", "back", "legs">>),
             Day("Active Recovery", <<"core">>),
             Day("Rest", <<>>)>>
      [] difficulty = "intermediate" ->
           <<Day("Push Day", <<"chest", "shoulders">>),
             Day("Pull Day", <<"back", "arms">>),
             Day("Leg Day", <<"legs", "core">>),
             Day("Rest", <<>>),
             Day("Upper Body", <<"chest", "back", "shoulders">>),
             Day("Lower Body", <<"legs", "core">>),
             Day("Rest", <<>>)>>
      [] difficulty = "advanced" ->
           <<Day("Chest & Triceps", <<"chest", "arms">>),
             Day("Back & Biceps", <<"back", "arms">>),
             Day("Legs", <<"legs">>),
             Day("Shoulders & Core", <<"shoulders", "core">>),
             Day("Upper Power", <<"chest", "back">>),
             Day("Lower Power", <<"legs", "core">>),
             Day("Active Recovery", <<"core", "shoulders">>)>>

dayNames == <<"Monday", "Tuesday", "Wednesday", "Thursday", "Friday", "Saturday", "Sunday">>

\* data.exercises.filter(ex => ex.muscle === muscle)
MuscleExercises(list, muscle) == Filter(list, LAMBDA ex : ex.muscle = muscle)

\* shuffleArray(muscleExercises).slice(0, 2), for every outcome of the shuffle
MusclePicks(list, muscle) ==
    LET muscleExercises == MuscleExercises(list, muscle)
    IN  {Slice(shuffleArray(muscleExercises, js).shuffled, 2) :
            js \in RandomChoices(Len(muscleExercises))}

\* the dayExercises a workout day can get: the picks of its muscles, in the
\* order the day lists them
RECURSIVE DayExercises(_, _)
DayExercises(list, muscles) ==
    IF muscles = <<>> THEN {<<>>}
    ELSE {first \o rest : first \in MusclePicks(list, Head(muscles)),
                          rest \in DayExercises(list, Tail(muscles))}

\* the exercise lists the days of a split can get, day by day
RECURSIVE Weeks(_, _)
Weeks(list, split) ==
    IF split = <<>> THEN {<<>>}
    ELSE {<<today>> \o rest : today \in DayExercises(list, Head(split).muscles),
                              rest \in Weeks(list, Tail(split))}

RECURSIVE SumLengths(_)
SumLengths(plan) ==
    IF plan = <<>> THEN 0 ELSE Len(Head(plan).exercises) + SumLengths(Tail(plan))

RECURSIVE SumMuscles(_)
SumMuscles(split) ==
    IF split = <<>> THEN 0 ELSE Len(Head(split).muscles) + SumMuscles(Tail(split))

\* Math.min(7, Math.max(1, parseInt(days) || 5)) with days = 5 by default
WorkoutDays(days) == MathMin(7, MathMax(1, OrElse(parseInt(WithDefault(days, 5)), 5)))

\* the responses of GET /workout-plan when the week is cut after workoutDays days
WorkoutPlanResponsesTruncating(q) ==
    LET difficulty == IF q.difficulty = undefined THEN "intermediate" ELSE q.difficulty
    IN  IF toLowerCase(difficulty) \notin validDifficulties
        THEN {[status |-> 400, error |-> "Invalid difficulty parameter", work |-> Work(0, 0)]}
        ELSE LET split == workoutSplits(toLowerCase(difficulty))
                 workoutDays == WorkoutDays(q.days)
                 weeks == Weeks(exercises, SubSeq(split, 1, workoutDays))
             IN  {LET weeklyPlan == [i \in 1..workoutDays |->
                                        [day |-> dayNames[i], type |-> split[i].name,
                                         exercises |-> w[i]]]
                  IN  [status |-> 200, plan |-> weeklyPlan,
                       difficulty |-> toLowerCase(difficulty),
                       totalWorkoutDays |->
                           Cardinality({i \in 1..workoutDays : Len(w[i]) > 0}),
                       totalExercises |-> SumLengths(weeklyPlan),
                       work |-> Work(SumMuscles(split), SumMuscles(split))] : w \in weeks}

\* the responses app.get('/workout-plan', ...) can give, one for every
\* outcome of its shuffles; workoutDays is computed and never read
WorkoutPlanResponses(q) ==
    LET difficulty == IF q.difficulty = undefined THEN "intermediate" ELSE q.difficulty
    IN  IF toLowerCase(difficulty) \notin validDifficulties
        THEN {[status |-> 400, error |-> "Invalid difficulty parameter", work |-> Work(0, 0)]}
        ELSE LET split == workoutSplits(toLowerCase(difficulty))
                 workoutDays == WorkoutDays(q.days)
                 weeks == Weeks(exercises, split)
             IN  {LET weeklyPlan == [i \in 1..7 |->
                                        [day |-> dayNames[i], type |-> split[i].name,
                                         exercises |-> w[i]]]
                  IN  [status |-> 200, plan |-> weeklyPlan,
                       difficulty |-> toLowerCase(difficulty),
                       totalWorkoutDays |-> Cardinality({i \in 1..7 : Len(w[i]) > 0}),
                       totalExercises |-> SumLengths(weeklyPlan),
                       work |-> Work(SumMuscles(split), SumMuscles(split))] : w \in weeks}

\* app.get('/workout-plan', ...)
WorkoutPlan(q) ==
    /\ req' = [op |-> "GET /workout-plan", query |-> q]
    /\ res' \in WorkoutPlanResponses(q)
    /\ UNCHANGED <<data, store>>

\* totalDuration as `${Math.floor(t / 60)}:${String(t % 60).padStart(2, '0')} min`:
\* the minutes and the two digits of the seconds
FormatDuration(t) ==
    [minutes |-> t \div 60, tens |-> (t % 60) \div 10, units |-> (t % 60) % 10]

RECURSIVE SumField(_, _)
SumField(list, f) ==
    IF list = <<>> THEN 0 ELSE Head(list)[f] + SumField(Tail(list), f)

validTypes == {"upper", "lower", "cardio", "core", "full"}

\* app.get('/warm-up', ...)
WarmUp(q) ==
    LET type == IF q.type = undefined THEN "full" ELSE q.type
    IN  /\ req' = [op |-> "GET /warm-up", query |-> q]
        /\ IF toLowerCase(type) \notin validTypes
           THEN /\ res' = [status |-> 400, error |-> "Invalid type parameter",
                           work |-> Work(0, 0)]
                /\ UNCHANGED <<data, store>>
           ELSE LET filtered ==
                        IF toLowerCase(type) # "full"
                        THEN Filter(warmups, LAMBDA w : w.type = toLowerCase(type))
                        ELSE warmups
                    exerciseCount ==
                        MathMin(Len(filtered),
                                MathMax(1, OrElse(parseInt(WithDefault(q.count, 5)), 5)))
                IN  \E js \in RandomChoices(Len(filtered)) :
                        LET r == shuffleArray(filtered, js)
                            routine == Slice(r.shuffled, exerciseCount)
                        IN  /\ res' = [status |-> 200, warmup |-> routine,
                                       count |-> Len(routine),
                                       totalDuration |->
                                           FormatDuration(SumField(routine, "duration")),
                                       totalCalories |-> SumField(routine, "calories"),
                                       type |-> toLowerCase(type),
                                       work |-> Work(Count(toLowerCase(type) # "full"), 1)]
                            /\ warmups' = IF toLowerCase(type) = "full" THEN r.array
                                          ELSE warmups
                            /\ UNCHANGED <<exercises, stretches, store>>

\* app.get('/stretches', ...): targetArea is compared as sent with 'all' and
\* is not validated
Stretches(q) ==
    LET targetArea == IF q.targetArea = undefined THEN "all" ELSE q.targetArea
        filtered ==
            IF targetArea # "all"
            THEN Filter(stretches, LAMBDA st : st.targetArea = toLowerCase(targetArea))
            ELSE stretches
        stretchCount ==
            MathMin(Len(filtered), MathMax(1, OrElse(parseInt(WithDefault(q.count, 5)), 5)))
    IN  /\ req' = [op |-> "GET /stretches", query |-> q]
        /\ \E js \in RandomChoices(Len(filtered)) :
               LET r == shuffleArray(filtered, js)
                   routine == Slice(r.shuffled, stretchCount)
               IN  /\ res' = [status |-> 200, stretches |-> routine,
                              count |-> Len(routine),
                              totalDuration |->
                                  FormatDuration(SumField(routine, "duration")),
                              targetArea |-> toLowerCase(targetArea),
                              work |-> Work(Count(targetArea # "all"), 1)]
                   /\ stretches' = IF targetArea = "all" THEN r.array ELSE stretches
                   /\ UNCHANGED <<exercises, warmups, store>>

\* const exerciseCategories = { ..., push: [...], pull: [...] }
pushIds == {1, 2, 3, 4, 5, 6, 7, 21, 23, 24, 25, 27, 29, 36, 37, 38}
pullIds == {8, 9, 10, 11, 12, 13, 14, 26, 28, 30, 40, 41, 42}

upperMuscles == {"chest", "back", "shoulders", "arms"}
lowerMuscles == {"legs", "core"}
muscles == <<"chest", "back", "legs", "shoulders", "arms", "core">>

\* { ...ex, type: t }
Tagged(ex, t) ==
    [f \in DOMAIN ex \cup {"type"} |-> IF f = "type" THEN t ELSE ex[f]]

\* Math.min(5, Math.max(1, parseInt(sets) || 3)) with sets = 3 by default
SetCount(sets) == MathMin(5, MathMax(1, OrElse(parseInt(WithDefault(sets, 3)), 3)))

\* the zipping loop bounded by setCount and the first list only, taking
\* second[i % second.length]: the second list is recycled when it runs out
ZipPairsRecycling(first, second, setCount, t1, t2) ==
    IF second = <<>> THEN <<>>
    ELSE [i \in 1..MathMin(setCount, Len(first)) |->
             [setNumber |-> i, exercise1 |-> Tagged(first[i], t1),
              exercise2 |-> Tagged(second[((i - 1) % Len(second)) + 1], t2)]]

\* the loop zipping two shuffled lists: one pair per index below setCount and
\* both lengths
ZipPairs(first, second, setCount, t1, t2) ==
    [i \in 1..MathMin(setCount, MathMin(Len(first), Len(second))) |->
        [setNumber |-> i, exercise1 |-> Tagged(first[i], t1),
         exercise2 |-> Tagged(second[i], t2)]]

\* the same-muscle loop stepping by one, i++ instead of i += 2: elements
\* 0&1, 1&2, ... are paired, while i < setCount * 2 and i + 1 < length
ConsecutivePairsOverlapping(list, setCount, muscle) ==
    [k \in 1..MathMin(setCount * 2, MathMax(Len(list) - 1, 0)) |->
        [setNumber |-> ((k - 1) \div 2) + 1, exercise1 |-> list[k],
         exercise2 |-> list[k + 1], muscle |-> muscle]]

\* the same-muscle loop: elements 0&1, 2&3, ... while i < setCount * 2 and
\* i + 1 < length
ConsecutivePairs(list, setCount, muscle) ==
    [k \in 1..MathMin(setCount, Len(list) \div 2) |->
        [setNumber |-> k, exercise1 |-> list[2 * k - 1], exercise2 |-> list[2 * k],
         muscle |-> muscle]]

SupersetResponse(type, supersets, setCount, work) ==
    [status |-> 200, type |-> type, supersets |-> supersets,
     totalSets |-> Len(supersets), setCount |-> setCount, work |-> work]

\* app.get('/superset', ...): type is compared as sent and is not validated
Superset(q) ==
    LET type == IF q.type = undefined THEN "push-pull" ELSE q.type
        allExercises == getAllExercises
        setCount == SetCount(q.sets)
    IN  /\ req' = [op |-> "GET /superset", query |-> q]
        /\ UNCHANGED <<data, store>>
        /\ IF type = "push-pull"
           THEN LET pushExercises == Filter(allExercises, LAMBDA ex : ex.id \in pushIds)
                    pullExercises == Filter(allExercises, LAMBDA ex : ex.id \in pullIds)
                IN  \E js1 \in RandomChoices(Len(pushExercises)),
                       js2 \in RandomChoices(Len(pullExercises)) :
                        res' = SupersetResponse(type,
                                   ZipPairs(shuffleArray(pushExercises, js1).shuffled,
                                            shuffleArray(pullExercises, js2).shuffled,
                                            setCount, "push", "pull"),
                                   setCount, Work(2, 2))
           ELSE IF type = "upper-lower"
           THEN LET upper == Filter(allExercises, LAMBDA ex : ex.muscle \in upperMuscles)
                    lower == Filter(allExercises, LAMBDA ex : ex.muscle \in lowerMuscles)
                IN  \E js1 \in RandomChoices(Len(upper)),
                       js2 \in RandomChoices(Len(lower)) :
                        res' = SupersetResponse(type,
                                   ZipPairs(shuffleArray(upper, js1).shuffled,
                                            shuffleArray(lower, js2).shuffled,
                                            setCount, "upper", "lower"),
                                   setCount, Work(2, 2))
           ELSE IF type = "same-muscle"
           THEN \E m \in 1..Len(muscles) :
                    LET randomMuscle == muscles[m]
                        candidates == Filter(allExercises,
                                             LAMBDA ex : ex.muscle = randomMuscle)
                    IN  \E js \in RandomChoices(Len(candidates)) :
                            res' = SupersetResponse(type,
                                       ConsecutivePairs(
                                           shuffleArray(candidates, js).shuffled,
                                           setCount, randomMuscle),
                                       setCount, Work(1, 1))
           ELSE res' = SupersetResponse(type, <<>>, setCount, Work(0, 0))

-----------------------------------------------------------------------------
(* The exercise listing and the other filtered views.                      *)

\* Equipment names and the equipment criterion are texts: lists of letters,
\* the empty list for '' and for a criterion that was not sent (both falsy).
toLowerCaseLetter(c) ==
    CASE c = "A" -> "a"
      [] c = "B" -> "b"
      [] c = "D" -> "d"
      [] c = "N" -> "n"
      [] c = "R" -> "r"
      [] OTHER -> c

\* String.prototype.toLowerCase on a text
toLowerCaseText(s) == [i \in 1..Len(s) |-> toLowerCaseLetter(s[i])]

\* String.prototype.includes: sub occurs in s at some offset
includes(s, sub) ==
    \E k \in 0..(Len(s) - Len(sub)) : SubSeq(s, k + 1, k + Len(sub)) = sub

\* a data.exercises element with its equipment
Equipped(ex, equipment) ==
    [id |-> ex.id, name |-> ex.name, muscle |-> ex.muscle, difficulty |-> ex.difficulty,
     custom |-> ex.custom, equipment |-> equipment]

\* Math.max(k, v) and Math.min(k, v) on a number that may be NaN
MathMaxNaN(k, v) == IF v.nan THEN NaN ELSE Num(MathMax(k, v.n))
MathMinNaN(k, v) == IF v.nan THEN NaN ELSE Num(MathMin(k, v.n))

\* Array.prototype.slice(start, end) for start, end >= 0 or NaN (NaN is 0)
SliceFrom(s, start, end) ==
    LET a == IF start.nan THEN 0 ELSE start.n
        b == IF end.nan THEN 0 ELSE end.n
    IN  SubSeq(s, a + 1, MathMin(b, Len(s)))

\* Math.ceil(n / d) for n >= 0 and d >= 1 or NaN
MathCeilDiv(n, d) == IF d.nan THEN NaN ELSE Num((n + d.n - 1) \div d.n)

\* the filters of GET /exercises with the difficulty filter run on
\* data.exercises instead of on the result of the muscle filter
ListedExercisesRestarting(list, muscle, difficulty, equipment) ==
    LET byMuscle ==
            IF Truthy(muscle)
            THEN Filter(list, LAMBDA ex : toLowerCase(ex.muscle) = toLowerCase(muscle))
            ELSE list
        byDifficulty ==
            IF Truthy(difficulty)
            THEN Filter(list,
                        LAMBDA ex : toLowerCase(ex.difficulty) = toLowerCase(difficulty))
            ELSE byMuscle
    IN  IF equipment # <<>>
        THEN Filter(byDifficulty,
                    LAMBDA ex : includes(toLowerCaseText(ex.equipment),
                                         toLowerCaseText(equipment)))
        ELSE byDifficulty

\* the three filters of GET /exercises over data.exercises, each run on the
\* result of the one before
ListedExercises(list, muscle, difficulty, equipment) ==
    LET byMuscle ==
            IF Truthy(muscle)
            THEN Filter(list, LAMBDA ex : toLowerCase(ex.muscle) = toLowerCase(muscle))
            ELSE list
        byDifficulty ==
            IF Truthy(difficulty)
            THEN Filter(byMuscle,
                        LAMBDA ex : toLowerCase(ex.difficulty) = toLowerCase(difficulty))
            ELSE byMuscle
    IN  IF equipment # <<>>
        THEN Filter(byDifficulty,
                    LAMBDA ex : includes(toLowerCaseText(ex.equipment),
                                         toLowerCaseText(equipment)))
        ELSE byDifficulty

\* app.get('/exercises', ...)
GetExercises(q) ==
    LET filteredExercises == ListedExercises(exercises, q.muscle, q.difficulty, q.equipment)
        pageNum == MathMaxNaN(1, parseInt(WithDefault(q.page, 1)))
        limitNum == MathMinNaN(50, MathMaxNaN(1, parseInt(WithDefault(q.limit, 10))))
        startIndex == IF pageNum.nan \/ limitNum.nan THEN NaN
                      ELSE Num((pageNum.n - 1) * limitNum.n)
        endIndex == IF startIndex.nan THEN NaN ELSE Num(startIndex.n + limitNum.n)
    IN  /\ req' = [op |-> "GET /exercises", query |-> q]
        /\ res' = [status |-> 200,
                   exercises |-> SliceFrom(filteredExercises, startIndex, endIndex),
                   currentPage |-> pageNum,
                   itemsPerPage |-> limitNum,
                   totalItems |-> Len(filteredExercises),
                   totalPages |-> MathCeilDiv(Len(filteredExercises), limitNum)]
        /\ UNCHANGED <<data, store>>

\* app.get('/random-exercise', ...): the same two filters over
\* getAllExercises(), then one element at a random index
RandomExercise(q) ==
    LET filtered == FilteredExercises(getAllExercises, q.muscle, q.difficulty)
    IN  /\ req' = [op |-> "GET /random-exercise", query |-> q]
        /\ UNCHANGED <<data, store>>
        /\ IF Len(filtered) = 0
           THEN res' = [status |-> 404,
                        error |-> "No exercises found matching your criteria"]
           ELSE \E randomIndex \in 1..Len(filtered) :
                    res' = [status |-> 200, exercise |-> filtered[randomIndex]]

\* app.get('/muscles', ...): per muscle group, the exercises with exactly
\* that muscle and, among them, those with exactly each difficulty
GetMuscles ==
    LET allExercises == getAllExercises
        muscleData(muscle) ==
            LET found == Filter(allExercises, LAMBDA ex : ex.muscle = muscle)
            IN  [muscle |-> muscle,
                 exerciseCount |-> Len(found),
                 beginner |-> Len(Filter(found, LAMBDA ex : ex.difficulty = "beginner")),
                 intermediate |->
                     Len(Filter(found, LAMBDA ex : ex.difficulty = "intermediate")),
                 advanced |-> Len(Filter(found, LAMBDA ex : ex.difficulty = "advanced"))]
    IN  /\ req' = [op |-> "GET /muscles"]
        /\ res' = [status |-> 200,
                   muscles |-> [m \in 1..Len(muscles) |-> muscleData(muscles[m])],
                   totalExercises |-> Len(allExercises)]
        /\ UNCHANGED <<data, store>>

-----------------------------------------------------------------------------
(* The interval session.                                                   *)

\* const hiitExercises = [{ name: 'Burpees', calories: 15 }, ...]
Interval(name, calories) == [name |-> name, calories |-> calories]

hiitExercises ==
    <<Interval("Burpees", 15), Interval("Mountain Climbers", 12),
      Interval("Jump Squats", 14), Interval("High Knees", 11),
      Interval("Box Jumps", 15), Interval("Plank Jacks", 10),
      Interval("Jumping Lunges", 14), Interval("Tuck Jumps", 16),
      Interval("Speed Skaters", 12), Interval("Bicycle Crunches", 8)>>

\* Math.min(10, Math.max(1, parseInt(rounds) || 4)) without the Math.min
RoundCountUncapped(rounds) == MathMax(1, OrElse(parseInt(WithDefault(rounds, 4)), 4))

\* Math.min(10, Math.max(1, parseInt(rounds) || 4)) with rounds = 4 by default
RoundCount(rounds) == MathMin(10, MathMax(1, OrElse(parseInt(WithDefault(rounds, 4)), 4)))

\* Math.min(120, Math.max(10, parseInt(work) || 40)) with work = 40 by default
WorkTime(work) == MathMin(120, MathMax(10, OrElse(parseInt(WithDefault(work, 40)), 40)))

\* Math.min(120, Math.max(5, parseInt(rest) || 20)) with rest = 20 by default
RestTime(rest) == MathMin(120, MathMax(5, OrElse(parseInt(WithDefault(rest, 20)), 20)))

\* Math.round(ex.calories * (workTime / 40)), halves rounded up.  For the
\* calories of hiitExercises and workTime in 10..120 the product computed in
\* doubles rounds to the same integer as the exact quotient.
EstimatedCalories(calories, workTime) == (2 * calories * workTime + 40) \div 80

\* The index choices of a shuffle of n elements in which at most moved
\* positions draw another index than their own; a choice sequence is listed
\* from position 1, whose entry the loop never reads.
RECURSIVE ChoicesMoving(_, _)
ChoicesMoving(n, moved) ==
    IF n = 0 THEN {<<>>}
    ELSE {Append(js, n) : js \in ChoicesMoving(n - 1, moved)} \cup
         (IF moved = 0 THEN {}
          ELSE {Append(c[1], c[2]) : c \in ChoicesMoving(n - 1, moved - 1) \X (1..(n - 1))})

\* the shuffles of hiitExercises the model draws
HiitChoices == ChoicesMoving(Len(hiitExercises), MaxMoved)

\* app.get('/hiit', ...)
Hiit(q) ==
    LET roundCount == RoundCount(q.rounds)
        workTime == WorkTime(q.work)
        restTime == RestTime(q.rest)
    IN  /\ req' = [op |-> "GET /hiit", query |-> q]
        /\ UNCHANGED <<data, store>>
        /\ \E js \in HiitChoices :
               LET shuffled == shuffleArray(hiitExercises, js).shuffled
                   selectedExercises == Slice(shuffled, roundCount)
                   workout == [i \in 1..Len(selectedExercises) |->
                                  [round |-> i,
                                   exercise |-> selectedExercises[i].name,
                                   workSeconds |-> workTime,
                                   restSeconds |-> restTime,
                                   estimatedCalories |->
                                       EstimatedCalories(selectedExercises[i].calories,
                                                         workTime)]]
                   totalTime == roundCount * (workTime + restTime)
               IN  res' = [status |-> 200,
                           workout |-> workout,
                           rounds |-> roundCount,
                           workInterval |-> workTime,
                           restInterval |-> restTime,
                           totalTime |-> FormatDuration(totalTime),
                           estimatedCalories |-> SumField(workout, "estimatedCalories")]

-----------------------------------------------------------------------------
(* Requests the model sends.                                               *)

\* bodies of POST /exercises: complete, with a field missing, out of enum
ExerciseBodies ==
    {[name |-> "Cable Fly", muscle |-> "Chest", difficulty |-> "Beginner"],
     [name |-> undefined, muscle |-> "Chest", difficulty |-> "Beginner"],
     [name |-> "Cable Fly", muscle |-> "wings", difficulty |-> "Beginner"],
     [name |-> "Cable Fly", muscle |-> "Chest", difficulty |-> "expert"]}

\* :id path parameters: text, ids of the built-in range (one stored, one
\* not), ids of the custom range
IdParams ==
    {RawText} \cup {RawInt(n) : n \in {5, 999} \cup
                                      (FirstCustomId..(FirstCustomId + MaxCustom))}

\* bodies of POST /history: no array, or a list of performed exercises
HistoryBodies ==
    {[isArray |-> FALSE, exercises |-> <<>>],
     [isArray |-> TRUE, exercises |-> <<[calories |-> 25], [calories |-> 0]>>]}

\* data.warmups and data.stretches
Warmup(name, type, duration, calories) ==
    [name |-> name, type |-> type, duration |-> duration, calories |-> calories]

Stretch(name, targetArea, duration) ==
    [name |-> name, targetArea |-> targetArea, duration |-> duration]

WarmupList ==
    <<Warmup("Arm Circles", "upper", 30, 5), Warmup("Shoulder Rolls", "upper", 45, 6),
      Warmup("Leg Swings", "lower", 30, 4)>>

StretchList ==
    <<Stretch("Hamstring Stretch", "legs", 30), Stretch("Chest Opener", "upper", 20),
      Stretch("Quad Stretch", "legs", 45)>>

\* the built-in catalog of the store specification
StoreCatalog == <<Exercise(999, "legs", "advanced")>>

NoRequest == [op |-> "none"]
NoResponse == [status |-> 0]

InitStore ==
    /\ customExercises = <<>>
    /\ nextCustomId = FirstCustomId
    /\ favorites = {}
    /\ workoutHistory = <<>>
    /\ popularExercises = <<>>
    /\ now = 0
    /\ req = NoRequest
    /\ res = NoResponse

Init ==
    /\ exercises = StoreCatalog
    /\ warmups = WarmupList
    /\ stretches = StretchList
    /\ InitStore

Next ==
    \/ \E body \in ExerciseBodies : PostExercises(body)
    \/ \E id \in IdParams : DeleteExercise(id)
    \/ \E id \in IdParams : GetExerciseById(id)
    \/ \E id \in IdParams : PostFavorite(id)
    \/ \E id \in IdParams : DeleteFavorite(id)
    \/ GetFavorites
    \/ GetStats
    \/ \E body \in HistoryBodies : now < MaxStoreAppends /\ PostHistory(body)
    \/ DeleteHistory

Spec == Init /\ [][Next]_vars

NextHistory ==
    \/ \E body \in HistoryBodies : PostHistory(body)
    \/ DeleteHistory

SpecHistory == Init /\ [][NextHistory]_vars

\* numeric query parameters: absent, not a number, and integers around the
\* clamping limits 1, 5 and 10
NumberParams ==
    {RawAbsent, RawText} \cup {RawInt(n) : n \in {-1, 0, 1, 2, 3, 4, 5, 6, 10, 11}}

MuscleParams == {undefined, "chest", "Chest", "back", "legs", "wings"}
DifficultyParams == {undefined, "beginner", "Beginner", "advanced", "expert"}

WorkoutQueries ==
    {[muscle |-> m, difficulty |-> d, count |-> c] :
        m \in MuscleParams, d \in DifficultyParams, c \in NumberParams}

PlanQueries ==
    {[difficulty |-> d, days |-> n] :
        d \in DifficultyParams \cup {"intermediate"}, n \in NumberParams}

WarmUpQueries ==
    {[type |-> t, count |-> n] :
        t \in {undefined, "upper", "Upper", "lower", "core", "full", "arms"},
        n \in NumberParams}

StretchQueries ==
    {[targetArea |-> t, count |-> n] :
        t \in {undefined, "all", "legs", "Upper", "hips", "wings"},
        n \in NumberParams}

SupersetQueries ==
    {[type |-> t, sets |-> n] :
        t \in {undefined, "push-pull", "upper-lower", "same-muscle", "Push-Pull",
               "circuit"},
        n \in NumberParams}

\* the exercises built-in catalogs are made of: three push-tagged chest
\* exercises, two pull-tagged ones
BaseExercises ==
    <<Exercise(1, "chest", "beginner"), Exercise(2, "chest", "beginner"),
      Exercise(3, "chest", "beginner"), Exercise(8, "back", "intermediate"),
      Exercise(9, "legs", "advanced")>>

\* the built-in catalogs: every sublist of the base exercises, in base order
SubLists(list) ==
    {Filter([i \in 1..Len(list) |-> [at |-> i, ex |-> list[i]]],
            LAMBDA e : e.at \in keep) : keep \in SUBSET (1..Len(list))}

Catalogs ==
    {[i \in 1..Len(l) |-> l[i].ex] : l \in SubLists(BaseExercises)}

InitCompose ==
    /\ exercises \in Catalogs
    /\ warmups = WarmupList
    /\ stretches = StretchList
    /\ InitStore

\* res.json(...) has sent the response: the server waits for a request
SendResponse ==
    /\ res # NoResponse
    /\ req' = NoRequest
    /\ res' = NoResponse
    /\ UNCHANGED <<data, store>>

\* the composer answers one request at a time
Idle == res = NoResponse

NextCompose ==
    \/ \E q \in WorkoutQueries : Idle /\ GenerateWorkout(q)
    \/ \E q \in PlanQueries : Idle /\ WorkoutPlan(q)
    \/ \E q \in WarmUpQueries : Idle /\ WarmUp(q)
    \/ \E q \in StretchQueries : Idle /\ Stretches(q)
    \/ \E q \in SupersetQueries : Idle /\ Superset(q)
    \/ \E body \in ExerciseBodies : Idle /\ PostExercises(body)
    \/ SendResponse

SpecCompose == InitCompose /\ [][NextCompose]_vars

\* equipment names and criteria
Bar == <<"B", "a", "r">>
band == <<"b", "a", "n", "d">>
none == <<"n", "o", "n", "e">>

EquipmentParams == {<<>>, <<"b", "a">>, <<"B", "A", "R">>, <<"n", "d">>, <<"x">>}

\* page and limit parameters: absent, not a number, and integers around the
\* limits 1 and 50
PageParams == {RawAbsent, RawText} \cup {RawInt(n) : n \in {0, 1, 2, 3}}
LimitParams == {RawAbsent, RawText} \cup {RawInt(n) : n \in {0, 1, 2, 50, 51}}

ListQueries ==
    {[muscle |-> m, difficulty |-> d, equipment |-> e, page |-> p, limit |-> l] :
        m \in {undefined, "chest", "Chest", "back", "wings"},
        d \in {undefined, "beginner", "Beginner", "advanced"},
        e \in EquipmentParams, p \in PageParams, l \in LimitParams}

\* The dataset is handed to the program as it is: the exercises listed
\* catalogs are made of store a muscle and a difficulty with a capital letter.
ListedBase ==
    <<Equipped(Exercise(1, "chest", "beginner"), Bar),
      Equipped(Exercise(2, "Chest", "beginner"), band),
      Equipped(Exercise(8, "back", "Beginner"), Bar),
      Equipped(Exercise(3, "chest", "advanced"), none)>>

ListedCatalogs ==
    {[i \in 1..Len(l) |-> l[i].ex] : l \in SubLists(ListedBase)}

InitFilter ==
    /\ exercises \in ListedCatalogs
    /\ warmups = WarmupList
    /\ stretches = StretchList
    /\ InitStore

RandomQueries ==
    {[muscle |-> m, difficulty |-> d] :
        m \in {undefined, "chest", "Chest", "back", "wings"},
        d \in {undefined, "beginner", "Beginner", "advanced"}}

NextFilter ==
    \/ \E q \in ListQueries : Idle /\ GetExercises(q)
    \/ \E q \in RandomQueries : Idle /\ RandomExercise(q)
    \/ Idle /\ GetMuscles
    \/ \E q \in WorkoutQueries : Idle /\ GenerateWorkout(q)
    \/ \E q \in PlanQueries : Idle /\ WorkoutPlan(q)
    \/ \E q \in SupersetQueries : Idle /\ Superset(q)
    \/ SendResponse

SpecFilter == InitFilter /\ [][NextFilter]_vars

\* rounds, work and rest parameters: absent, not a number, and integers at
\* and around the limits of each
HiitQueries ==
    {[rounds |-> r, work |-> w, rest |-> t] :
        r \in {RawAbsent, RawText} \cup {RawInt(n) : n \in {-1, 0, 1, 3, 10, 11}},
        w \in {RawAbsent} \cup {RawInt(n) : n \in {0, 9, 50, 121}},
        t \in {RawAbsent} \cup {RawInt(n) : n \in {4, 121}}}

NextHiit ==
    \/ \E q \in HiitQueries : Idle /\ Hiit(q)
    \/ SendResponse

SpecHiit == Init /\ [][NextHiit]_vars

-----------------------------------------------------------------------------
(* Properties of the mutation store.                                       *)

IsPostHistory(r) == r.op = "POST /history"
IsDeleteExercise(r) == r.op = "DELETE /exercises/:id"
IsPostExercises(r) == r.op = "POST /exercises"
IsPostFavorite(r) == r.op = "POST /favorites/:id"

\* the last k elements of a list
LastN(s, k) == SubSeq(s, Len(s) - MathMin(k, Len(s)) + 1, Len(s))

Front(s) == SubSeq(s, 1, Len(s) - 1)

\* the elements of a list at the positions of a set, in the order of the list
RECURSIVE KeptInOrder(_, _, _)
KeptInOrder(list, keep, i) ==
    IF i > Len(list) THEN <<>>
    ELSE (IF i \in keep THEN <<list[i]>> ELSE <<>>) \o KeptInOrder(list, keep, i + 1)

\* the stored entries are the most recently appended ones, oldest first
MostRecentInOrder(h, clock) ==
    \A i \in 1..Len(h) : h[i].timestamp = clock - Len(h) + i

\* C1: the history never holds more than 100 entries; a successful append
\* stores the new entry last and, when 100 entries were already stored,
\* evicts exactly the oldest one, so that the log is always the most recent
\* appends in append order and, after 150 appends in a row, the 51st..150th.
C1_HistoryCap ==
    [][/\ Len(workoutHistory') <= HistoryCap
       /\ MostRecentInOrder(workoutHistory', now')
       /\ (IsPostHistory(req') /\ now' # now) =>
              /\ res'.status = 201
              /\ workoutHistory' =
                     LastN(Append(workoutHistory, res'.workout), HistoryCap)
              /\ res'.workout.timestamp = now'
       /\ (now' = 150 /\ Len(workoutHistory') = HistoryCap) =>
              /\ workoutHistory'[1].timestamp = 51
              /\ workoutHistory'[HistoryCap].timestamp = 150]_vars

\* 150 appends, the last 100 of them with no clear in between
C1_Witness ==
    /\ now = 150
    /\ IsPostHistory(req)
    /\ res.status = 201
    /\ Len(workoutHistory) = HistoryCap
    /\ workoutHistory[1].timestamp = 51
    /\ workoutHistory[HistoryCap].timestamp = 150

\* C2: with the built-in ids in 1..999, no two exercises of the combined
\* catalog share an id, and every custom exercise has an id >= 1000.
C2_UniqueIds ==
    LET all == getAllExercises
    IN  /\ \A i \in 1..Len(exercises) : exercises[i].id \in 1..999
        /\ \A i, j \in 1..Len(all) : i # j => all[i].id # all[j].id
        /\ \A i \in 1..Len(customExercises) :
               /\ customExercises[i].id >= FirstCustomId
               /\ customExercises[i].custom

\* two adds, the first of them deleted again
C2_Witness ==
    /\ nextCustomId = FirstCustomId + 2
    /\ Len(customExercises) = 1
    /\ customExercises[1].id = FirstCustomId + 1
    /\ Len(exercises) > 0

\* C3: delete-exercise with an id below 1000 answers Forbidden and leaves
\* the custom list, the id counter, the favorites and the history alone.
C3_DeleteBuiltInForbidden ==
    [][(IsDeleteExercise(req') /\ LessThan(parseInt(req'.id), 1000)) =>
           /\ res'.status = 403
           /\ UNCHANGED <<customExercises, nextCustomId, favorites, workoutHistory>>]_vars

\* a built-in id refused while every collection of the store is non-empty
C3_Witness ==
    /\ IsDeleteExercise(req)
    /\ req.id = RawInt(999)
    /\ res.status = 403
    /\ customExercises # <<>>
    /\ favorites # {}
    /\ workoutHistory # <<>>

\* C4: deleting the id a successful add returned succeeds, gives back the
\* custom list of before the add and removes the exercise from the combined
\* catalog; from then on an id lookup, a favorites add and a second delete
\* of that id answer not-found.
C4_AddThenDelete ==
    [][/\ (IsPostExercises(req') /\ res'.status = 201 /\ nextCustomId' # nextCustomId) =>
              /\ Front(customExercises') = customExercises
              /\ customExercises'[Len(customExercises')] = res'.exercise
       /\ (/\ IsPostExercises(req) /\ res.status = 201
           /\ IsDeleteExercise(req') /\ req'.id = RawInt(res.exercise.id)) =>
              /\ res'.status = 200
              /\ res'.exercise = res.exercise
              /\ customExercises' = Front(customExercises)
              /\ ~HasId(exercises' \o customExercises', res.exercise.id)
       /\ (/\ IsDeleteExercise(req) /\ res.status = 200
           /\ req'.op \in {"GET /exercise/:id", "POST /favorites/:id",
                           "DELETE /exercises/:id"}
           /\ req'.id = req.id) =>
              res'.status = 404]_vars

\* the second of two custom exercises deleted right after it was added
C4_Witness ==
    /\ IsDeleteExercise(req)
    /\ res.status = 200
    /\ res.exercise.id = FirstCustomId + 1
    /\ Ids(customExercises) = {FirstCustomId}
    /\ nextCustomId = FirstCustomId + 2

\* C5: favorites.add of an id that is already a favorite answers a client
\* error (400, or 404 once the exercise itself is gone) and leaves the
\* favorites set, its members and its size, as it was.
C5_DuplicateFavoriteRejected ==
    [][(/\ IsPostFavorite(req')
        /\ ~parseInt(req'.id).nan
        /\ parseInt(req'.id).n \in favorites) =>
           /\ res'.status \in {400, 404}
           /\ HasId(getAllExercises, parseInt(req'.id).n) => res'.status = 400
           /\ favorites' = favorites
           /\ Cardinality(favorites') = Cardinality(favorites)]_vars

\* the second add of a favorite that is still in the catalog
C5_Witness ==
    /\ IsPostFavorite(req)
    /\ res.status = 400
    /\ parseInt(req.id).n \in favorites
    /\ Cardinality(favorites) = 2

IsDeleteFavorite(r) == r.op = "DELETE /favorites/:id"

\* the numeric id of a request is the id of an exercise of the combined catalog
InCatalog(r) == ~parseInt(r.id).nan /\ HasId(getAllExercises, parseInt(r.id).n)

\* C16: favorites.add succeeds only for the id of an exercise that is in the
\* combined catalog and then adds exactly that id; for any other id it
\* answers not-found and leaves the set as it was.  favorites.remove of an id
\* that is not a favorite answers not-found and leaves the set as it was, and
\* otherwise removes exactly that id.
C16_FavoritesRequireExistence ==
    [][/\ IsPostFavorite(req') =>
              /\ res'.status = 201 =>
                     /\ InCatalog(req')
                     /\ favorites' = favorites \cup {parseInt(req'.id).n}
              /\ ~InCatalog(req') =>
                     /\ res'.status = 404
                     /\ favorites' = favorites
       /\ IsDeleteFavorite(req') =>
              IF parseInt(req'.id).nan \/ parseInt(req'.id).n \notin favorites
              THEN /\ res'.status = 404
                   /\ favorites' = favorites
              ELSE /\ res'.status = 200
                   /\ favorites' = favorites \ {parseInt(req'.id).n}
                   /\ Cardinality(favorites') = Cardinality(favorites) - 1]_vars

\* the id of a deleted custom exercise refused while another favorite is kept
C16_Witness ==
    /\ IsPostFavorite(req)
    /\ req.id = RawInt(FirstCustomId)
    /\ res.status = 404
    /\ nextCustomId > FirstCustomId
    /\ favorites = {999}

\* C17: delete-exercise with an id >= 1000 that a custom exercise has removes
\* that exercise and no other, the others keeping their order; with an id no
\* custom exercise has it answers not-found and leaves the list as it was;
\* the id counter is the same after as before in both cases.
C17_DeleteRemovesExactlyOne ==
    [][(/\ IsDeleteExercise(req')
        /\ ~parseInt(req'.id).nan
        /\ parseInt(req'.id).n >= 1000) =>
           LET id == parseInt(req'.id).n
               others == {i \in 1..Len(customExercises) : customExercises[i].id # id}
           IN  /\ nextCustomId' = nextCustomId
               /\ IF HasId(customExercises, id)
                  THEN /\ res'.status = 200
                       /\ res'.exercise.id = id
                       /\ customExercises' = KeptInOrder(customExercises, others, 1)
                       /\ Len(customExercises') = Len(customExercises) - 1
                  ELSE /\ res'.status = 404
                       /\ customExercises' = customExercises]_vars

\* the first of two custom exercises deleted, the second kept
C17_Witness ==
    /\ IsDeleteExercise(req)
    /\ req.id = RawInt(FirstCustomId)
    /\ res.status = 200
    /\ Len(customExercises) = 1
    /\ customExercises[1].id = FirstCustomId + 1
    /\ nextCustomId = FirstCustomId + 2

\* a body with the three required fields, muscle and difficulty in their enums
ValidBody(body) ==
    /\ Truthy(body.name) /\ Truthy(body.muscle) /\ Truthy(body.difficulty)
    /\ toLowerCase(body.muscle) \in validMuscles
    /\ toLowerCase(body.difficulty) \in validDifficulties

\* C18: add-exercise with a valid body stores exactly one new record, last in
\* the custom list, with custom = true, the name sent and the id the counter
\* held (1000 at the first add), and returns it; with a required field
\* missing or a muscle or difficulty outside its enum it answers a client
\* error and changes neither the custom list nor the id counter.
C18_AddAppendsOne ==
    [][IsPostExercises(req') =>
           IF ValidBody(req'.body)
           THEN /\ res'.status = 201
                /\ customExercises' = Append(customExercises, res'.exercise)
                /\ res'.exercise.custom
                /\ res'.exercise.name = req'.body.name
                /\ res'.exercise.id = nextCustomId
                /\ res'.exercise.id >= 1000
                /\ (customExercises = <<>> /\ favorites = {} /\ now = 0
                    /\ popularExercises = <<>> /\ req = NoRequest) =>
                       res'.exercise.id = 1000
           ELSE /\ res'.status \in 400..499
                /\ customExercises' = customExercises
                /\ nextCustomId' = nextCustomId]_vars

\* a second valid add, stored after the first with the next id
C18_Witness ==
    /\ IsPostExercises(req)
    /\ res.status = 201
    /\ res.exercise.id = FirstCustomId + 1
    /\ Len(customExercises) = 2
    /\ customExercises[1].id = FirstCustomId
    /\ customExercises[2] = res.exercise

IsDeleteHistory(r) == r.op = "DELETE /history"

\* C19: clearing the history leaves it empty and reports as deleted count the
\* number of entries stored just before (0 for an empty history); the
\* favorites and the custom exercises are as they were.
C19_ClearReportsCount ==
    [][IsDeleteHistory(req') =>
           /\ res'.status = 200
           /\ workoutHistory' = <<>>
           /\ res'.deletedCount = Len(workoutHistory)
           /\ favorites' = favorites
           /\ customExercises' = customExercises]_vars

\* a stored entry cleared while a favorite and a custom exercise are kept
C19_Witness ==
    /\ IsDeleteHistory(req)
    /\ res.deletedCount = 1
    /\ workoutHistory = <<>>
    /\ favorites # {}
    /\ customExercises # <<>>

\* C20: whatever appends and clears came before, the ordinal ids of the
\* stored history entries are strictly increasing from the oldest entry to
\* the newest, hence pairwise different.
C20_HistoryIdsIncreasing ==
    \A i, j \in 1..Len(workoutHistory) :
        i < j => workoutHistory[i].id < workoutHistory[j].id

IsGetFavorites(r) == r.op = "GET /favorites"
IsGetStats(r) == r.op = "GET /stats"

\* C21: whatever adds and deletes of exercises and favorites came before,
\* every favorite id is the id of an exercise of the combined catalog, so the
\* favorites listing counts, and lists, as many exercises as the favorites
\* set has members, the number the statistics report.
C21_FavoritesInCatalog ==
    /\ favorites \subseteq Ids(getAllExercises)
    /\ IsGetFavorites(req) =>
           /\ res.count = Cardinality(favorites)
           /\ Ids(res.favorites) = favorites
    /\ IsGetStats(req) => res.totalFavorites = Cardinality(favorites)

\* C22: the id counter starts at 1000; a successful add-exercise returns the
\* id the counter holds and moves the counter up by one; no other request,
\* delete-exercise and rejected add included, moves it.  Hence the ids of
\* successive successful adds are 1000, 1001, 1002, ..., no id is returned
\* twice and every stored custom id is below the counter.
C22_SequentialIds ==
    /\ nextCustomId = 1000
    /\ [][/\ IF IsPostExercises(req') /\ res'.status = 201 /\ ValidBody(req'.body)
             THEN /\ res'.exercise.id = nextCustomId
                  /\ nextCustomId' = nextCustomId + 1
                  /\ res'.exercise.id \notin Ids(customExercises)
             ELSE nextCustomId' = nextCustomId
          /\ (IsPostExercises(req') /\ ~ValidBody(req'.body)) => res'.status = 400
          /\ \A id \in Ids(customExercises') : id \in 1000..(nextCustomId' - 1)]_vars

\* a second successful add after a rejected add and the delete of the first
C22_Witness ==
    /\ IsPostExercises(req)
    /\ res.status = 201
    /\ res.exercise.id = FirstCustomId + 1
    /\ customExercises = <<res.exercise>>
    /\ nextCustomId = FirstCustomId + 2

-----------------------------------------------------------------------------
(* Properties of the composer.                                             *)

IsGenerateWorkout(r) == r.op = "GET /generate-workout"
IsWorkoutPlan(r) == r.op = "GET /workout-plan"
IsWarmUp(r) == r.op = "GET /warm-up"
IsStretches(r) == r.op = "GET /stretches"
IsSuperset(r) == r.op = "GET /superset"

\* the exercises of a list that satisfy every filter a query supplies
Matching(list, q) ==
    {ex \in Range(list) :
        /\ Truthy(q.muscle) => toLowerCase(ex.muscle) = toLowerCase(q.muscle)
        /\ Truthy(q.difficulty) => toLowerCase(ex.difficulty) = toLowerCase(q.difficulty)}

Distinct(s) == \A i, j \in 1..Len(s) : i # j => s[i] # s[j]

IsPermutation(s, t) ==
    /\ Len(s) = Len(t)
    /\ \A x \in Range(s) \cup Range(t) :
           Cardinality({i \in 1..Len(s) : s[i] = x}) =
           Cardinality({i \in 1..Len(t) : t[i] = x})

\* C6: a successful generate-workout returns exactly min(k, matches)
\* exercises, k the effective count, pairwise distinct and all taken from
\* the exercises that satisfy every supplied filter; every shuffle of the
\* catalog is a permutation of it, and the catalog itself is left as it was.
C6_SampleSize ==
    [][(IsGenerateWorkout(req') /\ res'.status = 200) =>
           LET matching == Matching(exercises, req'.query)
           IN  /\ matching # {}
               /\ Len(res'.workout) = MathMin(res'.exerciseCount, Cardinality(matching))
               /\ res'.count = Len(res'.workout)
               /\ Distinct(res'.workout)
               /\ Range(res'.workout) \subseteq matching
               /\ exercises' = exercises
               /\ \A js \in RandomChoices(Len(exercises)) :
                      /\ IsPermutation(shuffleArray(exercises, js).shuffled, exercises)
                      /\ shuffleArray(exercises, js).array = exercises]_vars

\* count=5 for chest/beginner against a five-exercise catalog with exactly
\* three matches
C6_Witness ==
    /\ IsGenerateWorkout(req)
    /\ req.query = [muscle |-> "chest", difficulty |-> "beginner", count |-> RawInt(5)]
    /\ Len(exercises) = 5
    /\ res.status = 200
    /\ res.count = 3

\* the effective count the claim C7 states for a count parameter
ClampedCount(count) ==
    IF count.kind = "absent" THEN 3 ELSE MathMin(10, MathMax(1, count.n))

\* C7: for every integer count, zero and negatives included, generate-workout
\* returns min(10, max(1, count)) exercises where that many match, and 3 when
\* count is absent.
C7_CountClamped ==
    (IsGenerateWorkout(req) /\ res.status = 200 /\ req.query.count.kind # "text") =>
        res.count = MathMin(ClampedCount(req.query.count),
                            Cardinality(Matching(exercises, req.query)))

ClampedSets(sets) ==
    IF sets.kind = "absent" THEN 3 ELSE MathMin(5, MathMax(1, sets.n))

\* C9: a push-pull superset response has at most min(setCount, push-tagged
\* exercises, pull-tagged exercises) pairs, setCount being the requested set
\* count clamped to 1..5.
C9_PushPullBound ==
    (/\ IsSuperset(req)
     /\ req.query.type \in {undefined, "push-pull"}
     /\ req.query.sets.kind # "text") =>
        LET all == getAllExercises
            push == Cardinality({i \in 1..Len(all) : all[i].id \in pushIds})
            pull == Cardinality({i \in 1..Len(all) : all[i].id \in pullIds})
        IN  /\ res.totalSets = Len(res.supersets)
            /\ res.totalSets <= MathMin(ClampedSets(req.query.sets), MathMin(push, pull))

\* the fixed sets of the enum parameters, as the handlers document them
supersetTypes == {"push-pull", "upper-lower", "same-muscle"}
targetAreas == {"legs", "upper", "arms", "back", "hips", "core", "all"}

OutsideEnum(value, enum) == value # undefined /\ toLowerCase(value) \notin enum

InvalidEnum(r) ==
    \/ IsGenerateWorkout(r) /\ \/ OutsideEnum(r.query.muscle, validMuscles)
                               \/ OutsideEnum(r.query.difficulty, validDifficulties)
    \/ IsWorkoutPlan(r) /\ OutsideEnum(r.query.difficulty, validDifficulties)
    \/ IsWarmUp(r) /\ OutsideEnum(r.query.type, validTypes)
    \/ IsSuperset(r) /\ OutsideEnum(r.query.type, supersetTypes)
    \/ IsStretches(r) /\ OutsideEnum(r.query.targetArea, targetAreas)

\* C10: a request with an enum parameter outside its fixed set gets a client
\* error, and no filter and no shuffle runs for it.
C10_EnumsFailFast ==
    InvalidEnum(req) => /\ res.status \in 400..499
                        /\ res.work = Work(0, 0)

\* C11: generate-workout filters the combined catalog: a stored custom
\* exercise that satisfies the filters of a valid request is a candidate, so a
\* request whose effective count is at least the number of matching exercises
\* of the combined catalog succeeds and returns it.
C11_CustomExercisesAreCandidates ==
    (IsGenerateWorkout(req) /\ ~InvalidEnum(req)) =>
        LET matching == Matching(getAllExercises, req.query)
        IN  \A i \in 1..Len(customExercises) :
                (/\ customExercises[i] \in matching
                 /\ ExerciseCount(req.query.count) >= Cardinality(matching)) =>
                    /\ res.status = 200
                    /\ customExercises[i] \in Range(res.workout)

\* the zero "0:00 min"
ZeroDuration == [minutes |-> 0, tens |-> 0, units |-> 0]

\* no element of a side catalog carries the tag a request asks for
NoneTagged(list, f, tag, all) ==
    \/ list = <<>>
    \/ toLowerCase(tag) # all /\ \A i \in 1..Len(list) : list[i][f] # toLowerCase(tag)

\* no exercise of a list has one of some muscles
NoExerciseOf(list, among) ==
    \A i \in 1..Len(list) : toLowerCase(list[i].muscle) \notin among

\* C14: with valid parameters and no matching exercise generate-workout
\* answers not-found and sends no workout; a warm-up or stretch routine over
\* an empty filtered side catalog is a success with an empty list, count 0 and
\* zero totals; a plan day none of whose muscles has an exercise is an entry
\* with an empty list, and a plan of such days only totals 0 exercises on 0
\* workout days.
C14_EmptyResults ==
    /\ (/\ IsGenerateWorkout(req) /\ ~InvalidEnum(req)
        /\ Matching(getAllExercises, req.query) = {}) =>
           /\ res.status = 404
           /\ "workout" \notin DOMAIN res
    /\ (/\ IsWarmUp(req) /\ ~InvalidEnum(req)
        /\ NoneTagged(warmups, "type",
                      IF req.query.type = undefined THEN "full" ELSE req.query.type,
                      "full")) =>
           /\ res.status = 200
           /\ res.warmup = <<>>
           /\ res.count = 0
           /\ res.totalDuration = ZeroDuration
           /\ res.totalCalories = 0
    /\ (/\ IsStretches(req) /\ ~InvalidEnum(req)
        /\ NoneTagged(stretches, "targetArea",
                      IF req.query.targetArea = undefined THEN "all"
                      ELSE req.query.targetArea,
                      "all")) =>
           /\ res.status = 200
           /\ res.stretches = <<>>
           /\ res.count = 0
           /\ res.totalDuration = ZeroDuration
    /\ (IsWorkoutPlan(req) /\ ~InvalidEnum(req)) =>
           LET split == workoutSplits(res.difficulty)
               bare == {i \in 1..7 :
                           NoExerciseOf(getAllExercises, Range(split[i].muscles))}
           IN  /\ res.status = 200
               /\ \A i \in bare : res.plan[i].exercises = <<>>
               /\ bare = 1..7 => res.totalExercises = 0 /\ res.totalWorkoutDays = 0

\* a chest request against a catalog that holds other muscles only
C14_Witness ==
    /\ IsGenerateWorkout(req)
    /\ req.query.muscle = "chest"
    /\ req.query.difficulty = undefined
    /\ Len(exercises) = 2
    /\ customExercises = <<>>
    /\ res.status = 404

RECURSIVE Factorial(_)
Factorial(n) == IF n <= 1 THEN 1 ELSE n * Factorial(n - 1)

\* every arrangement of the elements of a list of distinct elements
Arrangements(list) ==
    {p \in [1..Len(list) -> Range(list)] : \A i, j \in 1..Len(list) : i # j => p[i] # p[j]}

\* the choice sequences that make shuffleArray return a given list
ChoicesGiving(array, shuffled) ==
    {js \in RandomChoices(Len(array)) : shuffleArray(array, js).shuffled = shuffled}

\* C15: for a list of n distinct elements the sequences of index choices of
\* the shuffle number n!, the lists they produce are the n! permutations of
\* it, each produced by exactly one sequence, and every element comes first
\* in the same number, (n - 1)!, of sequences; a full-length generate-workout
\* answer is one of these permutations, produced by exactly one sequence.
C15_ShuffleUnbiased ==
    LET n == Len(exercises)
    IN  /\ (Idle /\ Distinct(exercises)) =>
               /\ Cardinality(RandomChoices(n)) = Factorial(n)
               /\ {shuffleArray(exercises, js).shuffled : js \in RandomChoices(n)} =
                  Arrangements(exercises)
               /\ Cardinality(Arrangements(exercises)) = Factorial(n)
               /\ \A p \in Arrangements(exercises) :
                      Cardinality(ChoicesGiving(exercises, p)) = 1
               /\ \A i \in 1..n :
                      Cardinality({js \in RandomChoices(n) :
                                      shuffleArray(exercises, js).shuffled[1] = exercises[i]})
                          = Factorial(n - 1)
        /\ (/\ IsGenerateWorkout(req) /\ res.status = 200
            /\ res.work = Work(0, 1) /\ res.exerciseCount >= n) =>
               /\ IsPermutation(res.workout, exercises)
               /\ Cardinality(ChoicesGiving(exercises, res.workout)) = 1

\* the five-exercise catalog returned whole, last exercise first
C15_Witness ==
    /\ IsGenerateWorkout(req)
    /\ res.status = 200
    /\ Len(exercises) = 5
    /\ Len(res.workout) = 5
    /\ res.workout[1] = exercises[5]
    /\ res.workout[5] = exercises[1]

\* how many exercises of a list have exactly a muscle
CountExact(list, muscle) == Cardinality({i \in 1..Len(list) : list[i].muscle = muscle})

\* how many exercises a day takes for its first k muscles, two a muscle where
\* the list has them
RECURSIVE PicksBefore(_, _, _)
PicksBefore(list, dayMuscles, k) ==
    IF k = 0 THEN 0
    ELSE PicksBefore(list, dayMuscles, k - 1) + MathMin(2, CountExact(list, dayMuscles[k]))

\* a day's exercise list is, muscle after muscle in the day's order, min(2, n)
\* distinct exercises of the catalog with exactly that muscle
DayListOf(catalog, dayMuscles, list) ==
    /\ Len(list) = PicksBefore(catalog, dayMuscles, Len(dayMuscles))
    /\ Distinct(list)
    /\ Range(list) \subseteq Range(catalog)
    /\ \A k \in 1..Len(dayMuscles) :
           \A at \in (PicksBefore(catalog, dayMuscles, k - 1) + 1)..
                      PicksBefore(catalog, dayMuscles, k) :
               list[at].muscle = dayMuscles[k]

\* C23: in a weekly plan a rest day has no exercises; any other day lists,
\* in the order of its muscles, min(2, n) distinct exercises of exactly each
\* muscle, n the number of exercises of the combined catalog with that
\* muscle; totalExercises is the sum of the seven lengths and totalWorkoutDays
\* the number of days with a non-empty list.
C23_PlanDays ==
    (IsWorkoutPlan(req) /\ res.status = 200) =>
        LET split == workoutSplits(res.difficulty)
        IN  /\ \A i \in 1..7 :
                   /\ split[i].muscles = <<>> => res.plan[i].exercises = <<>>
                   /\ DayListOf(getAllExercises, split[i].muscles, res.plan[i].exercises)
            /\ res.totalExercises = SumLengths(res.plan)
            /\ res.totalWorkoutDays =
                   Cardinality({i \in 1..7 : res.plan[i].exercises # <<>>})

\* the ids of the exercises of the pairs of a superset response, pair by pair
PairedIds(supersets) ==
    [k \in 1..(2 * Len(supersets)) |->
        IF k % 2 = 1 THEN supersets[(k + 1) \div 2].exercise1.id
        ELSE supersets[k \div 2].exercise2.id]

\* C24: in a push-pull or upper-lower superset response the pairs are
\* numbered 1, 2, ..., totalSets; exercise1 is an exercise of the first
\* partition (push-tagged, or chest/back/shoulders/arms) and exercise2 one of
\* the second (pull-tagged, or legs/core), both stored in the catalog; no
\* exercise is in two pairs and none is both exercises of a pair.
C24_PairsFromPartitions ==
    (IsSuperset(req) /\ req.query.type \in {undefined, "push-pull", "upper-lower"}) =>
        LET pairs == res.supersets
            pushPull == req.query.type # "upper-lower"
        IN  /\ res.status = 200
            /\ res.totalSets = Len(pairs)
            /\ \A k \in 1..Len(pairs) :
                   /\ pairs[k].setNumber = k
                   /\ HasId(getAllExercises, pairs[k].exercise1.id)
                   /\ HasId(getAllExercises, pairs[k].exercise2.id)
                   /\ IF pushPull
                      THEN /\ pairs[k].exercise1.id \in pushIds
                           /\ pairs[k].exercise2.id \in pullIds
                           /\ pairs[k].exercise1.type = "push"
                           /\ pairs[k].exercise2.type = "pull"
                      ELSE /\ pairs[k].exercise1.muscle \in upperMuscles
                           /\ pairs[k].exercise2.muscle \in lowerMuscles
                           /\ pairs[k].exercise1.type = "upper"
                           /\ pairs[k].exercise2.type = "lower"
                   /\ pairs[k].exercise1.id # pairs[k].exercise2.id
            /\ Distinct(PairedIds(pairs))

\* two push-pull pairs out of three push and two pull exercises
C24_Witness ==
    /\ IsSuperset(req)
    /\ req.query.type = "push-pull"
    /\ Len(exercises) = 5
    /\ res.totalSets = 2
    /\ res.supersets[2].setNumber = 2

\* the exercises of the pairs of a same-muscle response, in pair order
PairedExercises(supersets) ==
    [k \in 1..(2 * Len(supersets)) |->
        IF k % 2 = 1 THEN supersets[(k + 1) \div 2].exercise1
        ELSE supersets[k \div 2].exercise2]

\* C25: a same-muscle superset response is, for one of the six muscles and n
\* the number of exercises of the combined catalog with it, exactly
\* min(setCount, n div 2) pairs numbered from 1, made of elements 1&2, 3&4,
\* ... of one shuffle of those exercises: all of the selected muscle, none in
\* two pairs, and the odd element left over not paired.
C25_SameMusclePairs ==
    (IsSuperset(req) /\ req.query.type = "same-muscle") =>
        \E m \in 1..Len(muscles) :
            LET candidates == Filter(getAllExercises, LAMBDA ex : ex.muscle = muscles[m])
                n == Len(candidates)
                pairs == res.supersets
                paired == PairedExercises(pairs)
            IN  /\ res.status = 200
                /\ res.totalSets = Len(pairs)
                /\ Len(pairs) = MathMin(res.setCount, n \div 2)
                /\ n % 2 = 1 => 2 * Len(pairs) < n
                /\ \A k \in 1..Len(pairs) :
                       /\ pairs[k].setNumber = k
                       /\ pairs[k].muscle = muscles[m]
                       /\ pairs[k].exercise1.muscle = muscles[m]
                       /\ pairs[k].exercise2.muscle = muscles[m]
                /\ Distinct(paired)
                /\ \E js \in RandomChoices(n) :
                       paired = Slice(shuffleArray(candidates, js).shuffled, Len(paired))

\* five chest exercises, three built-in and two custom: two pairs, one left
C25_Witness ==
    /\ IsSuperset(req)
    /\ req.query.type = "same-muscle"
    /\ Len(customExercises) = 2
    /\ res.totalSets = 2
    /\ res.supersets[1].muscle = "chest"
    /\ res.supersets[2].exercise2.custom

-----------------------------------------------------------------------------
(* Properties of the listing and of the filter predicates.                 *)

IsGetExercises(r) == r.op = "GET /exercises"

\* an exercise satisfies every criterion a listing query supplies
SatisfiesAll(ex, q) ==
    /\ Truthy(q.muscle) => toLowerCase(ex.muscle) = toLowerCase(q.muscle)
    /\ Truthy(q.difficulty) => toLowerCase(ex.difficulty) = toLowerCase(q.difficulty)
    /\ q.equipment # <<>> =>
           includes(toLowerCaseText(ex.equipment), toLowerCaseText(q.equipment))

\* the first page of the request holds the whole filtered list
WholeList(r, n) ==
    /\ parseInt(WithDefault(r.query.page, 1)) \in {Num(0), Num(1)}
    /\ ~parseInt(WithDefault(r.query.limit, 10)).nan
    /\ MathMin(50, MathMax(1, parseInt(WithDefault(r.query.limit, 10)).n)) >= n

\* C12: the listing filter keeps exactly the candidates that satisfy all the
\* supplied criteria, in their order in the candidate list (the whole list
\* when no criterion is supplied), and filtering by muscle then difficulty
\* gives the same list as by difficulty then muscle.
C12_ListingFilter ==
    IsGetExercises(req) =>
        LET q == req.query
            keep == {i \in 1..Len(exercises) : SatisfiesAll(exercises[i], q)}
            expected == KeptInOrder(exercises, keep, 1)
            byMuscle == ListedExercises(exercises, q.muscle, undefined, <<>>)
            byDifficulty == ListedExercises(exercises, undefined, q.difficulty, <<>>)
        IN  /\ res.totalItems = Cardinality(keep)
            /\ ListedExercises(exercises, q.muscle, q.difficulty, q.equipment) = expected
            /\ WholeList(req, Len(expected)) => res.exercises = expected
            /\ \E from \in 0..Len(expected) :
                   res.exercises = SubSeq(expected, from + 1, from + Len(res.exercises))
            /\ (~Truthy(q.muscle) /\ ~Truthy(q.difficulty) /\ q.equipment = <<>>) =>
                   expected = exercises
            /\ ListedExercises(byMuscle, undefined, q.difficulty, <<>>) =
               ListedExercises(byDifficulty, q.muscle, undefined, <<>>)

\* muscle, difficulty and equipment all supplied, in other letter case than
\* stored: the first two of four exercises are listed, in catalog order
C12_Witness ==
    /\ IsGetExercises(req)
    /\ req.query = [muscle |-> "Chest", difficulty |-> "Beginner",
                    equipment |-> <<"b", "a">>, page |-> RawAbsent, limit |-> RawAbsent]
    /\ Len(exercises) = 4
    /\ res.totalItems = 2
    /\ res.exercises = <<exercises[1], exercises[2]>>

IsRandomExercise(r) == r.op = "GET /random-exercise"
IsGetMuscles(r) == r.op = "GET /muscles"

\* how many exercises of a list have a muscle among some, letter case ignored
CountMuscles(list, among) ==
    Cardinality({i \in 1..Len(list) : toLowerCase(list[i].muscle) \in among})

\* ... and a difficulty as well
CountMuscleDifficulty(list, muscle, difficulty) ==
    Cardinality({i \in 1..Len(list) : /\ toLowerCase(list[i].muscle) = muscle
                                      /\ toLowerCase(list[i].difficulty) = difficulty})

-----------------------------------------------------------------------------
(* Properties of the interval session.                                     *)

IsHiit(r) == r.op = "GET /hiit"

\* the seconds a formatted duration stands for
SecondsOf(d) == d.minutes * 60 + d.tens * 10 + d.units

\* C26: whatever integers rounds, work and rest are, the HIIT response has
\* exactly roundCount rounds, numbered 1..roundCount, with roundCount in
\* 1..10; the exercises of the rounds are pairwise different; every round has
\* the same workSeconds, in 10..120, and the same restSeconds, in 5..120; the
\* total time is roundCount * (work + rest) seconds and the total calories
\* are the sum over the rounds of round(base * work / 40), base the calories
\* of the round's exercise.
C26_HiitRounds ==
    IsHiit(req) =>
        LET rounds == res.workout
        IN  /\ res.status = 200
            /\ res.rounds \in 1..10
            /\ Len(rounds) = res.rounds
            /\ res.workInterval \in 10..120
            /\ res.restInterval \in 5..120
            /\ \A i \in 1..Len(rounds) :
                   /\ rounds[i].round = i
                   /\ rounds[i].workSeconds = res.workInterval
                   /\ rounds[i].restSeconds = res.restInterval
                   /\ \E k \in 1..Len(hiitExercises) :
                          /\ hiitExercises[k].name = rounds[i].exercise
                          /\ 40 * rounds[i].estimatedCalories - 20 <=
                                 hiitExercises[k].calories * rounds[i].workSeconds
                          /\ hiitExercises[k].calories * rounds[i].workSeconds <
                                 40 * rounds[i].estimatedCalories + 20
            /\ \A i, j \in 1..Len(rounds) : i # j => rounds[i].exercise # rounds[j].exercise
            /\ SecondsOf(res.totalTime) = res.rounds * (res.workInterval + res.restInterval)
            /\ res.totalTime.tens \in 0..5 /\ res.totalTime.units \in 0..9
            /\ res.estimatedCalories = SumField(rounds, "estimatedCalories")

\* eleven rounds asked for, ten given, in another order than the list's
C26_Witness ==
    /\ IsHiit(req)
    /\ req.query = [rounds |-> RawInt(11), work |-> RawInt(50), rest |-> RawInt(4)]
    /\ Len(res.workout) = 10
    /\ res.workout[10].exercise = "Burpees"
    /\ res.workout[1].estimatedCalories = 10
    /\ res.totalTime = FormatDuration(550)

====
